---- MODULE Spec2Model ----
(***************************************************************************)
(* Model of the SimpleTodo API (ListsRepository + TodoEndpointsExtensions) *)
(* and of the item lifecycle rules applied by UpdateListItem.              *)
(*                                                                         *)
(* The two Cosmos containers are sequences of documents in the store's     *)
(* enumeration order, which is taken to be the order of insertion.         *)
(* Instants are integers counting half hours, optional values              *)
(* (DateTimeOffset?, int?) are sets with at most one element.              *)
(* The passive payload fields description and createdDate are left out.    *)
(*                                                                         *)
(* The update and delete handlers are also modelled step by step, for      *)
(* requests served in parallel, and the web client's countdown cell        *)
(* (TodoItemListPane.renderItemColumn) is modelled with instants in        *)
(* seconds.                                                                *)
(***************************************************************************)
EXTENDS Integers, Sequences, FiniteSets, TLC

VARIABLES lists, items, nextListId, nextItemId, clock, last,
          pending, before,
          display, wall, tick, userLocation, cachedLocation, systemTimeZone, rendered,
          isLoading, callbacks, calls, geolocation

(* The API server: the two containers, the id generator, the server's clock
   and the response of the last request. *)
api == <<lists, items, nextListId, nextItemId, clock, last>>

(* Requests whose handler is between its read and its write of the store,
   and the store as it was when the first of them was taken. *)
requests == <<pending, before>>

(* The web client: the item of the row being rendered, the browser's clock
   and time zone, the tick of TodoItemListPane, the location it knows, and
   the countdown cell rendered last. *)
ui == <<display, wall, tick, userLocation, cachedLocation, systemTimeZone, rendered>>

(* The singleton LocationService of the web client (with cachedLocation
   above): its fields isLoading and callbacks, the calls of
   getCurrentLocation that have not been consumed, and whether the browser
   has navigator.geolocation. *)
location == <<isLoading, callbacks, calls, geolocation>>

vars == <<api, requests, ui, location>>

(***************************************************************************)
(* Bounds of the model.                                                    *)
(***************************************************************************)
MaxTime == 2
MaxLists == 2
MaxItems == 2
MaxPage == 2
MaxQueryItems == 3

(* "timeDifference.TotalHours >= 1": one hour, in half-hour instants. *)
OneHour == 2

(***************************************************************************)
(* Values.                                                                 *)
(***************************************************************************)
Null == {}
Some(v) == {v}
HasValue(o) == o # {}
Value(o) == CHOOSE v \in o : TRUE
Opt(S) == {Null} \cup {Some(v) : v \in S}

Min(a, b) == IF a <= b THEN a ELSE b

Times == 0..MaxTime
ListIds == 1..MaxLists
ItemIds == 1..MaxItems
States == {"todo", "inprogress", "done"}
Names == {"a", "b"}

(* record CreateUpdateTodoList(name, description) *)
CreateUpdateTodoList(names) == [name : names]

(* record CreateUpdateTodoItem(name, state, dueDate, completedDate, description) *)
CreateUpdateTodoItem(names, states, times) ==
    [name : names, state : states, dueDate : Opt(times), completedDate : Opt(times)]

(***************************************************************************)
(* Document store: ReadItemAsync, UpsertItemAsync, ReplaceItemAsync,       *)
(* DeleteItemAsync on a container keyed by the document's own id.          *)
(***************************************************************************)
Range(s) == {s[k] : k \in 1..Len(s)}

Ids(container) == {d.id : d \in Range(container)}

(* ReadItemAsync(id): the document, or no resource when the id is absent. *)
ReadItem(container, id) == {d \in Range(container) : d.id = id}

(* ReplaceItemAsync storing the document also when the id is absent. *)
ReplaceItemOrInsert(container, doc) ==
    IF \E k \in 1..Len(container) : container[k].id = doc.id
    THEN [k \in 1..Len(container) |->
             IF container[k].id = doc.id THEN doc ELSE container[k]]
    ELSE Append(container, doc)

(* ReplaceItemAsync(doc, id): full replace of the document with that id;
   fails (leaves the container alone) when there is none. *)
ReplaceItem(container, doc) ==
    [k \in 1..Len(container) |->
        IF container[k].id = doc.id THEN doc ELSE container[k]]

(* UpsertItemAsync(doc): replace the document with doc.id when there is one,
   insert doc otherwise (a new document comes last in the enumeration). *)
UpsertItem(container, doc) ==
    IF doc.id \in Ids(container)
    THEN ReplaceItem(container, doc)
    ELSE Append(container, doc)

(* DeleteItemAsync(id) *)
DeleteItem(container, id) == SelectSeq(container, LAMBDA d : d.id # id)

(***************************************************************************)
(* Entities.  The TodoList and TodoItem classes: a new entity carries no   *)
(* id of its own (0), no completedDate and no updatedDate, and an item     *)
(* starts in state todo.                                                   *)
(***************************************************************************)
NoId == 0

TodoList(name) == [id |-> NoId, name |-> name, updatedDate |-> Null]

TodoItem(listId, name) ==
    [id |-> NoId, listId |-> listId, name |-> name, state |-> "todo",
     dueDate |-> Null, completedDate |-> Null, updatedDate |-> Null]

(***************************************************************************)
(* ListsRepository                                                         *)
(***************************************************************************)
Skip(q, n) == SubSeq(q, n + 1, Len(q))
Take(q, n) == SubSeq(q, 1, Min(n, Len(q)))

(* ToListAsync taking the batch before it skips. *)
ToListAsyncTakeFirst(queryable, skip, batchSize) ==
    LET q1 == IF batchSize # Null THEN Take(queryable, Value(batchSize)) ELSE queryable
        q2 == IF skip # Null THEN Skip(q1, Value(skip)) ELSE q1
    IN  q2

(* ToListAsync(queryable, skip, batchSize) *)
ToListAsync(queryable, skip, batchSize) ==
    LET q1 == IF skip # Null THEN Skip(queryable, Value(skip)) ELSE queryable
        q2 == IF batchSize # Null THEN Take(q1, Value(batchSize)) ELSE q1
    IN  q2

GetListsAsync(skip, batchSize) == ToListAsync(lists, skip, batchSize)

GetListAsync(listId) == ReadItem(lists, listId)

(* DeleteListAsync emptying the container. *)
DeleteListAsyncAll(listId) == SubSeq(lists, 1, 0)

DeleteListAsync(listId) == DeleteItem(lists, listId)

(* list.Id = Guid.NewGuid(); upsert *)
AddListAsync(list, guid) == UpsertItem(lists, [list EXCEPT !.id = guid])

RepoUpdateList(existingList) == ReplaceItem(lists, existingList)

GetListItemsAsync(listId, skip, batchSize) ==
    ToListAsync(SelectSeq(items, LAMBDA i : i.listId = listId), skip, batchSize)

GetListItemsByStateAsync(listId, state, skip, batchSize) ==
    ToListAsync(SelectSeq(items, LAMBDA i : i.listId = listId /\ i.state = state),
                skip, batchSize)

(* AddListItemAsync storing the item under the id it arrives with. *)
AddListItemAsyncKeepsId(item, guid) == UpsertItem(items, item)

(* item.Id = Guid.NewGuid(); upsert *)
AddListItemAsync(item, guid) == UpsertItem(items, [item EXCEPT !.id = guid])

(* GetListItemAsync without the test of the item's ListId. *)
GetListItemAsyncAnyList(listId, itemId) == ReadItem(items, itemId)

GetListItemAsync(listId, itemId) ==
    LET response == ReadItem(items, itemId)
    IN  IF response = Null \/ Value(response).listId # listId
        THEN Null
        ELSE response

DeleteListItemAsync(listId, itemId) == DeleteItem(items, itemId)

(* UpdateListItem writing the payload to every document of the container. *)
RepoUpdateListItemEvery(existingItem) ==
    [k \in 1..Len(items) |->
        [existingItem EXCEPT !.id = items[k].id, !.listId = items[k].listId]]

RepoUpdateListItem(existingItem) == ReplaceItem(items, existingItem)

(* UpdateListItemWithStateLogic: the item it hands to ReplaceItemAsync. *)
UpdateListItemWithStateLogic(existingItem, newState, newDueDate, newCompletedDate, now) ==
    LET oldState == existingItem.state
        e1 == [existingItem EXCEPT !.state = newState,
                                   !.dueDate = newDueDate,
                                   !.updatedDate = Some(now)]
    IN  IF oldState = "done" /\ newState = "done"
           /\ HasValue(newDueDate) /\ Value(newDueDate) > now
        THEN [e1 EXCEPT !.state = "todo", !.completedDate = Null]
        ELSE IF newState = "done" /\ oldState # "done"
        THEN [e1 EXCEPT !.state = "done",
                        !.completedDate = IF HasValue(newCompletedDate)
                                          THEN newCompletedDate ELSE Some(now)]
        ELSE IF newState # "done"
        THEN [e1 EXCEPT !.completedDate = Null]
        ELSE [e1 EXCEPT !.completedDate = newCompletedDate]

(***************************************************************************)
(* The lifecycle rules of the endpoint UpdateListItem.                     *)
(***************************************************************************)
(* ReopenFires without the one-hour floor. *)
ReopenFiresNoFloor(oldState, oldDueDate, item, now) ==
    /\ oldState = "done" /\ item.state = "done"
    /\ HasValue(item.dueDate) /\ HasValue(oldDueDate)
    /\ Value(item.dueDate) # Value(oldDueDate)
    /\ Value(item.dueDate) > now

(* Edge case 1 (reopen): both conditions of the nested ifs. *)
ReopenFires(oldState, oldDueDate, item, now) ==
    /\ oldState = "done" /\ item.state = "done"
    /\ HasValue(item.dueDate) /\ HasValue(oldDueDate)
    /\ Value(item.dueDate) # Value(oldDueDate)
    /\ Value(item.dueDate) > now
    /\ Value(item.dueDate) - Value(oldDueDate) >= OneHour

(* SetCompletedDate without the "?? DateTimeOffset.UtcNow" default. *)
SetCompletedDateNoDefault(e, oldState, item, now) ==
    IF item.state = "done" /\ oldState # "done"
    THEN [e EXCEPT !.state = "done", !.completedDate = item.completedDate]
    ELSE IF item.state # "done"
    THEN [e EXCEPT !.completedDate = Null]
    ELSE [e EXCEPT !.completedDate = item.completedDate]

(* SetCompletedDate without the else-if that clears the date of an item that
   is not done. *)
SetCompletedDateNoClear(e, oldState, item, now) ==
    IF item.state = "done" /\ oldState # "done"
    THEN [e EXCEPT !.state = "done",
                   !.completedDate = IF HasValue(item.completedDate)
                                     THEN item.completedDate ELSE Some(now)]
    ELSE [e EXCEPT !.completedDate = item.completedDate]

(* SetCompletedDate without the final else: an item that stays done keeps
   the completedDate it has. *)
SetCompletedDateKeepsStored(e, oldState, item, now) ==
    IF item.state = "done" /\ oldState # "done"
    THEN [e EXCEPT !.state = "done",
                   !.completedDate = IF HasValue(item.completedDate)
                                     THEN item.completedDate ELSE Some(now)]
    ELSE IF item.state # "done"
    THEN [e EXCEPT !.completedDate = Null]
    ELSE e

(* Edge cases 2 and 3: the if / else if / else that sets CompletedDate. *)
SetCompletedDate(e, oldState, item, now) ==
    IF item.state = "done" /\ oldState # "done"
    THEN [e EXCEPT !.state = "done",
                   !.completedDate = IF HasValue(item.completedDate)
                                     THEN item.completedDate ELSE Some(now)]
    ELSE IF item.state # "done"
    THEN [e EXCEPT !.completedDate = Null]
    ELSE [e EXCEPT !.completedDate = item.completedDate]

(* UpdateListItem assigning ListId as well. *)
ApplyUpdateListItemClearsList(existingItem, item, n1, n2, n3) ==
    SetCompletedDate([existingItem EXCEPT !.name = item.name,
                                          !.dueDate = item.dueDate,
                                          !.state = item.state,
                                          !.updatedDate = Some(n1),
                                          !.listId = NoId],
                     existingItem.state, item, n3)

(* UpdateListItem without the assignment of UpdatedDate. *)
ApplyUpdateListItemKeepsUpdated(existingItem, item, n1, n2, n3) ==
    LET e1 == [existingItem EXCEPT !.name = item.name,
                                   !.dueDate = item.dueDate,
                                   !.state = item.state]
        e2 == IF ReopenFires(existingItem.state, existingItem.dueDate, item, n2)
              THEN [e1 EXCEPT !.state = "todo", !.completedDate = Null]
              ELSE e1
    IN  SetCompletedDate(e2, existingItem.state, item, n3)

(* The item UpdateListItem hands to the repository; n1, n2, n3 are its three
   reads of DateTimeOffset.UtcNow, in program order. *)
ApplyUpdateListItem(existingItem, item, n1, n2, n3) ==
    LET oldState == existingItem.state
        oldDueDate == existingItem.dueDate
        e1 == [existingItem EXCEPT !.name = item.name,
                                   !.dueDate = item.dueDate,
                                   !.state = item.state,
                                   !.updatedDate = Some(n1)]
        e2 == IF ReopenFires(oldState, oldDueDate, item, n2)
              THEN [e1 EXCEPT !.state = "todo", !.completedDate = Null]
              ELSE e1
    IN  SetCompletedDate(e2, oldState, item, n3)

(***************************************************************************)
(* The response of the last request, with the request it answers: status   *)
(* and body are what the handler returns, req is the request body it bound *)
(* (query parameters for the queries), old holds the state, due date and   *)
(* completedDate of the item as the handler read it, now its reads of the  *)
(* clock.  A request that is answered NotFound has had none of its body    *)
(* read.                                                                   *)
(***************************************************************************)
Response(op, listId, itemId, status, body, req, old, now) ==
    [op |-> op, listId |-> listId, itemId |-> itemId, status |-> status,
     body |-> body, req |-> req, old |-> old, now |-> now]

NotFound(op, listId, itemId) ==
    Response(op, listId, itemId, "NotFound", <<>>, Null, Null, <<>>)

NoResponse == Response("none", NoId, NoId, "none", <<>>, Null, Null, <<>>)

(* No request is being answered. *)
Idle == last = NoResponse

(* The two requests that can be in progress together. *)
Requests == {1, 2}

(* A request handler between its awaits: pc is the await it resumes from
   ("replace" / "delete": the repository call that follows the existence
   read), doc the entity it read and changed in its own memory, req the body
   it bound, now its reads of the clock; began and ended number the steps of
   all requests in the order they were taken. *)
Request(pc, op, listId, itemId, doc, req, now, status, began, ended) ==
    [pc |-> pc, op |-> op, listId |-> listId, itemId |-> itemId, doc |-> doc,
     req |-> req, now |-> now, status |-> status, began |-> began, ended |-> ended]

NoRequest == Request("idle", "none", NoId, NoId, Null, Null, <<>>, "none", 0, 0)

(* The store after construction: both containers empty. *)
InitApi ==
    /\ lists = <<>>
    /\ items = <<>>
    /\ nextListId = 1
    /\ nextItemId = 1
    /\ clock = 0
    /\ last = NoResponse

InitRequests ==
    /\ pending = [r \in Requests |-> NoRequest]
    /\ before = Null

(* The client before TodoItemListPane is mounted: nothing rendered, tick 0,
   no location. *)
InitUi ==
    /\ display = Null
    /\ wall = 0
    /\ tick = 0
    /\ userLocation = Null
    /\ cachedLocation = Null
    /\ systemTimeZone = "UTC"
    /\ rendered = Null

(* The callers of getCurrentLocation. *)
Callers == {1, 2, 3}

(* A call of getCurrentLocation: pc is "idle" (no call), "position" or
   "details" (the call runs the lookup and awaits getPosition or
   getLocationDetails), "waiting" (its resolve is in callbacks) or "resolved"
   (its promise is resolved with result); via tells how it was answered:
   from the cache, as a waiter, or by its own lookup. *)
Call(pc, via, result) == [pc |-> pc, via |-> via, result |-> result]

NoCall == Call("idle", "none", Null)

(* The LocationService after construction, in a browser with geolocation. *)
InitLocationService ==
    /\ isLoading = FALSE
    /\ callbacks = <<>>
    /\ calls = [c \in Callers |-> NoCall]
    /\ geolocation = TRUE

Init == InitApi /\ InitRequests /\ InitUi /\ InitLocationService

(* Time passes between requests. *)
Tick ==
    /\ Idle
    /\ clock < MaxTime
    /\ clock' = clock + 1
    /\ UNCHANGED <<lists, items, nextListId, nextItemId, last, requests, ui, location>>

(* The response reaches the client; the next request can be taken. *)
Respond ==
    /\ ~Idle
    /\ last' = NoResponse
    /\ UNCHANGED <<lists, items, nextListId, nextItemId, clock, requests, ui, location>>

(***************************************************************************)
(* TodoEndpointsExtensions: one action per request handler.                *)
(***************************************************************************)
Page(skip, batchSize) == Some([skip |-> skip, batchSize |-> batchSize])

GetLists(skip, batchSize) ==
    /\ Idle
    /\ last' = Response("GetLists", NoId, NoId, "Ok",
                        GetListsAsync(skip, batchSize), Page(skip, batchSize), Null, <<>>)
    /\ UNCHANGED <<lists, items, nextListId, nextItemId, clock, requests, ui, location>>

(* clientId is the id the request body carries, if any (the bound record
   CreateUpdateTodoList has no such field). *)
CreateList(list, clientId) ==
    /\ Idle
    /\ LET todoList == TodoList(list.name)
       IN  /\ lists' = AddListAsync(todoList, nextListId)
           /\ last' = Response("CreateList", nextListId, NoId, "Created",
                               <<[todoList EXCEPT !.id = nextListId]>>,
                               Some([id |-> clientId, name |-> list.name]), Null, <<>>)
    /\ nextListId' = nextListId + 1
    /\ UNCHANGED <<items, nextItemId, clock, requests, ui, location>>

GetList(listId) ==
    /\ Idle
    /\ LET list == GetListAsync(listId)
       IN  last' = IF list = Null
                   THEN NotFound("GetList", listId, NoId)
                   ELSE Response("GetList", listId, NoId, "Ok", <<Value(list)>>,
                                 Null, Null, <<>>)
    /\ UNCHANGED <<lists, items, nextListId, nextItemId, clock, requests, ui, location>>

UpdateList(listId, list) ==
    /\ Idle
    /\ LET existingList == GetListAsync(listId)
       IN  IF existingList = Null
           THEN /\ last' = NotFound("UpdateList", listId, NoId)
                /\ UNCHANGED lists
           ELSE LET e == [Value(existingList) EXCEPT !.name = list.name,
                                                     !.updatedDate = Some(clock)]
                IN  /\ lists' = RepoUpdateList(e)
                    /\ last' = Response("UpdateList", listId, NoId, "Ok", <<e>>,
                                        Some(list), Null, <<clock>>)
    /\ UNCHANGED <<items, nextListId, nextItemId, clock, requests, ui, location>>

DeleteList(listId) ==
    /\ Idle
    /\ IF GetListAsync(listId) = Null
       THEN /\ last' = NotFound("DeleteList", listId, NoId)
            /\ UNCHANGED lists
       ELSE /\ lists' = DeleteListAsync(listId)
            /\ last' = Response("DeleteList", listId, NoId, "NoContent", <<>>,
                                Null, Null, <<>>)
    /\ UNCHANGED <<items, nextListId, nextItemId, clock, requests, ui, location>>

GetListItems(listId, skip, batchSize) ==
    /\ Idle
    /\ last' = IF GetListAsync(listId) = Null
               THEN NotFound("GetListItems", listId, NoId)
               ELSE Response("GetListItems", listId, NoId, "Ok",
                             GetListItemsAsync(listId, skip, batchSize),
                             Page(skip, batchSize), Null, <<>>)
    /\ UNCHANGED <<lists, items, nextListId, nextItemId, clock, requests, ui, location>>

CreateListItem(listId, item, clientId) ==
    /\ Idle
    /\ IF GetListAsync(listId) = Null
       THEN /\ last' = NotFound("CreateListItem", listId, NoId)
            /\ UNCHANGED <<items, nextItemId>>
       ELSE LET newItem == [TodoItem(listId, item.name) EXCEPT
                                !.name = item.name,
                                !.state = item.state,
                                !.dueDate = item.dueDate]
            IN  /\ items' = AddListItemAsync(newItem, nextItemId)
                /\ nextItemId' = nextItemId + 1
                /\ last' = Response("CreateListItem", listId, nextItemId, "Created",
                                    <<[newItem EXCEPT !.id = nextItemId]>>,
                                    Some([id |-> clientId, name |-> item.name,
                                          state |-> item.state, dueDate |-> item.dueDate,
                                          completedDate |-> item.completedDate]),
                                    Null, <<>>)
    /\ UNCHANGED <<lists, nextListId, clock, requests, ui, location>>

GetListItem(listId, itemId) ==
    /\ Idle
    /\ last' = IF GetListAsync(listId) = Null
               THEN NotFound("GetListItem", listId, itemId)
               ELSE LET item == GetListItemAsync(listId, itemId)
                    IN  IF item = Null
                        THEN NotFound("GetListItem", listId, itemId)
                        ELSE Response("GetListItem", listId, itemId, "Ok", <<Value(item)>>,
                                      Null, Null, <<>>)
    /\ UNCHANGED <<lists, items, nextListId, nextItemId, clock, requests, ui, location>>

(* After its first read of the clock (UpdatedDate) the handler reads it at
   most once more: in the reopen test when the outer if is entered, in the
   completion rule when no completedDate came with the request. *)
ReadsClockAgain(existingItem, item) ==
    \/ /\ existingItem.state = "done" /\ item.state = "done"
       /\ HasValue(item.dueDate) /\ HasValue(existingItem.dueDate)
       /\ Value(item.dueDate) # Value(existingItem.dueDate)
    \/ /\ item.state = "done" /\ existingItem.state # "done"
       /\ ~HasValue(item.completedDate)

(* n is the value of the second read of the clock. *)
UpdateListItem(listId, itemId, item, n) ==
    /\ Idle
    /\ clock <= n /\ n <= MaxTime
    /\ LET existingItem == GetListItemAsync(listId, itemId)
       IN  IF existingItem = Null
           THEN /\ n = clock
                /\ last' = NotFound("UpdateListItem", listId, itemId)
                /\ UNCHANGED <<items, clock>>
           ELSE LET e == ApplyUpdateListItem(Value(existingItem), item, clock, n, n)
                IN  /\ ReadsClockAgain(Value(existingItem), item) \/ n = clock
                    /\ items' = RepoUpdateListItem(e)
                    /\ clock' = n
                    /\ last' = Response("UpdateListItem", listId, itemId, "Ok", <<e>>,
                                        Some(item),
                                        Some([state |-> Value(existingItem).state,
                                              dueDate |-> Value(existingItem).dueDate,
                                              completedDate |->
                                                  Value(existingItem).completedDate]),
                                        <<clock, n>>)
    /\ UNCHANGED <<lists, nextListId, nextItemId, requests, ui, location>>

DeleteListItem(listId, itemId) ==
    /\ Idle
    /\ IF GetListItemAsync(listId, itemId) = Null
       THEN /\ last' = NotFound("DeleteListItem", listId, itemId)
            /\ UNCHANGED items
       ELSE /\ items' = DeleteListItemAsync(listId, itemId)
            /\ last' = Response("DeleteListItem", listId, itemId, "NoContent", <<>>,
                                Null, Null, <<>>)
    /\ UNCHANGED <<lists, nextListId, nextItemId, clock, requests, ui, location>>

GetListItemsByState(listId, state, skip, batchSize) ==
    /\ Idle
    /\ last' = IF GetListAsync(listId) = Null
               THEN NotFound("GetListItemsByState", listId, NoId)
               ELSE Response("GetListItemsByState", listId, NoId, "Ok",
                             GetListItemsByStateAsync(listId, state, skip, batchSize),
                             Some([skip |-> skip, batchSize |-> batchSize, state |-> state]),
                             Null, <<>>)
    /\ UNCHANGED <<lists, items, nextListId, nextItemId, clock, requests, ui, location>>

(***************************************************************************)
(* Request bodies.  A handler that answers NotFound returns before it      *)
(* reads the body, so one body stands for all of them there.               *)
(***************************************************************************)
Bodies(read, bodies) == IF read THEN bodies ELSE {CHOOSE b \in bodies : TRUE}

(***************************************************************************)
(* SpecLifecycle: the life of one item under arbitrary request bodies and  *)
(* a running clock: the first item created stays in the store, and no list *)
(* is created while another one is stored.                                 *)
(***************************************************************************)
NextLifecycle ==
    \/ Tick
    \/ Respond
    \/ \E list \in CreateUpdateTodoList({"a"}) :
          lists = <<>> /\ nextListId \in ListIds /\ CreateList(list, NoId)
    \/ \E listId \in ListIds : DeleteList(listId)
    \/ \E listId \in ListIds :
          \E item \in Bodies(GetListAsync(listId) # Null,
                             CreateUpdateTodoItem({"a"}, States, Times)) :
             items = <<>> /\ nextItemId \in ItemIds /\ CreateListItem(listId, item, NoId)
    \/ \E listId \in ListIds, itemId \in ItemIds : GetListItem(listId, itemId)
    \/ \E listId \in ListIds, itemId \in ItemIds :
          \E item \in Bodies(GetListItemAsync(listId, itemId) # Null,
                             CreateUpdateTodoItem({"a"}, States, Times)),
             n \in clock..MaxTime :
             UpdateListItem(listId, itemId, item, n)

SpecLifecycle == Init /\ [][NextLifecycle]_vars

(***************************************************************************)
(* SpecStore: the store gateway under requests addressed to any list id    *)
(* and item id, with several lists and items in the store; the clock       *)
(* stands still and the request bodies carry no dates.                     *)
(***************************************************************************)
NextStore ==
    \/ Respond
    \/ \E list \in CreateUpdateTodoList({"a"}), clientId \in {NoId} \cup ListIds :
          nextListId \in ListIds /\ CreateList(list, clientId)
    \/ \E listId \in ListIds : GetList(listId)
    \/ \E listId \in ListIds, list \in CreateUpdateTodoList({"b"}) : UpdateList(listId, list)
    \/ \E listId \in ListIds : DeleteList(listId)
    \/ \E listId \in ListIds, item \in CreateUpdateTodoItem({"a"}, {"todo"}, {}),
          clientId \in {NoId} \cup ItemIds :
          nextItemId \in ItemIds /\ CreateListItem(listId, item, clientId)
    \/ \E listId \in ListIds, itemId \in ItemIds : GetListItem(listId, itemId)
    \/ \E listId \in ListIds, itemId \in ItemIds,
          item \in CreateUpdateTodoItem({"b"}, {"done"}, {}) :
          UpdateListItem(listId, itemId, item, clock)
    \/ \E listId \in ListIds, itemId \in ItemIds : DeleteListItem(listId, itemId)

SpecStore == Init /\ [][NextStore]_vars

(***************************************************************************)
(* SpecQuery: the paginated queries over stores built by creates.          *)
(***************************************************************************)
Pages == Opt(0..MaxPage)

NextQuery ==
    \/ Respond
    \/ \E list \in CreateUpdateTodoList({"a"}) :
          nextListId \in ListIds /\ CreateList(list, NoId)
    \/ \E listId \in ListIds, item \in CreateUpdateTodoItem({"a"}, {"todo", "done"}, {}) :
          nextItemId <= MaxQueryItems /\ CreateListItem(listId, item, NoId)
    \/ \E skip \in Pages, batchSize \in Pages : GetLists(skip, batchSize)
    \/ \E listId \in ListIds, skip \in Pages, batchSize \in Pages :
          GetListItems(listId, skip, batchSize)
    \/ \E listId \in ListIds, state \in States, skip \in Pages, batchSize \in Pages :
          GetListItemsByState(listId, state, skip, batchSize)

SpecQuery == Init /\ [][NextQuery]_vars

(***************************************************************************)
(* SpecDates: one list and one item updated one request after the other   *)
(* while the clock runs; the request bodies carry no dates.                *)
(***************************************************************************)
NextDates ==
    \/ Tick
    \/ Respond
    \/ \E list \in CreateUpdateTodoList({"a"}) :
          lists = <<>> /\ nextListId \in ListIds /\ CreateList(list, NoId)
    \/ \E listId \in ListIds, list \in CreateUpdateTodoList(Names) : UpdateList(listId, list)
    \/ \E listId \in ListIds, item \in CreateUpdateTodoItem({"a"}, {"todo"}, {}) :
          items = <<>> /\ nextItemId \in ItemIds /\ CreateListItem(listId, item, NoId)
    \/ \E listId \in ListIds, itemId \in ItemIds :
          \E item \in Bodies(GetListItemAsync(listId, itemId) # Null,
                             CreateUpdateTodoItem({"a"}, {"todo", "done"}, {})),
             n \in clock..MaxTime :
             UpdateListItem(listId, itemId, item, n)

SpecDates == Init /\ [][NextDates]_vars

(***************************************************************************)
(* The update and delete handlers step by step.  Each of them awaits the   *)
(* repository twice: the existence read, then ReplaceItemAsync or          *)
(* DeleteItemAsync; requests of other clients run between the two.  The    *)
(* code between the awaits works on the handler's own copy of the entity.  *)
(* ReplaceItemAsync and DeleteItemAsync throw a CosmosException with       *)
(* status NotFound when the store has no document with the id; no handler  *)
(* catches it ("NotFoundException").                                       *)
(***************************************************************************)
AllIdle == \A r \in Requests : pending[r].pc = "idle"

StepsTaken ==
    LET marks == {0} \cup {pending[r].began : r \in Requests}
                     \cup {pending[r].ended : r \in Requests}
    IN  CHOOSE m \in marks : \A k \in marks : k <= m

(* Request r takes its first step and becomes rec; the store as it is before
   the first request of all is kept in before. *)
Begin(r, rec) ==
    /\ Idle
    /\ pending[r].pc = "idle"
    /\ pending' = [pending EXCEPT ![r] = rec]
    /\ before' = IF AllIdle THEN Some([lists |-> lists, items |-> items]) ELSE before

(* Request r takes its last step and ends with status. *)
End(r, status) ==
    /\ pending' = [pending EXCEPT ![r].pc = "done", ![r].status = status,
                                  ![r].ended = StepsTaken + 1]
    /\ UNCHANGED before

Returned(op, listId, itemId, status) ==
    Request("done", op, listId, itemId, Null, Null, <<>>, status,
            StepsTaken + 1, StepsTaken + 1)

Awaiting(pc, op, listId, itemId, doc, req, now) ==
    Request(pc, op, listId, itemId, Some(doc), Some(req), now, "none", StepsTaken + 1, 0)

BeginUpdateList(r, listId, list) ==
    /\ LET existingList == GetListAsync(listId)
       IN  IF existingList = Null
           THEN Begin(r, Returned("UpdateList", listId, NoId, "NotFound"))
           ELSE LET e == [Value(existingList) EXCEPT !.name = list.name,
                                                     !.updatedDate = Some(clock)]
                IN  Begin(r, Awaiting("replace", "UpdateList", listId, NoId, e, list,
                                      <<clock>>))
    /\ UNCHANGED <<api, ui, location>>

EndUpdateList(r) ==
    /\ pending[r].pc = "replace" /\ pending[r].op = "UpdateList"
    /\ LET existingList == Value(pending[r].doc)
       IN  /\ lists' = RepoUpdateList(existingList)
           /\ End(r, IF existingList.id \in Ids(lists) THEN "Ok" ELSE "NotFoundException")
    /\ UNCHANGED <<items, nextListId, nextItemId, clock, last, ui, location>>

BeginDeleteList(r, listId) ==
    /\ IF GetListAsync(listId) = Null
       THEN Begin(r, Returned("DeleteList", listId, NoId, "NotFound"))
       ELSE Begin(r, Awaiting("delete", "DeleteList", listId, NoId,
                              Value(GetListAsync(listId)), [name |-> "none"], <<>>))
    /\ UNCHANGED <<api, ui, location>>

EndDeleteList(r) ==
    /\ pending[r].pc = "delete" /\ pending[r].op = "DeleteList"
    /\ lists' = DeleteListAsync(pending[r].listId)
    /\ End(r, IF pending[r].listId \in Ids(lists) THEN "NoContent" ELSE "NotFoundException")
    /\ UNCHANGED <<items, nextListId, nextItemId, clock, last, ui, location>>

BeginUpdateListItem(r, listId, itemId, item) ==
    /\ LET existingItem == GetListItemAsync(listId, itemId)
       IN  IF existingItem = Null
           THEN Begin(r, Returned("UpdateListItem", listId, itemId, "NotFound"))
           ELSE LET e == ApplyUpdateListItem(Value(existingItem), item, clock, clock, clock)
                IN  Begin(r, Awaiting("replace", "UpdateListItem", listId, itemId, e, item,
                                      <<clock, clock>>))
    /\ UNCHANGED <<api, ui, location>>

EndUpdateListItem(r) ==
    /\ pending[r].pc = "replace" /\ pending[r].op = "UpdateListItem"
    /\ LET existingItem == Value(pending[r].doc)
       IN  /\ items' = RepoUpdateListItem(existingItem)
           /\ End(r, IF existingItem.id \in Ids(items) THEN "Ok" ELSE "NotFoundException")
    /\ UNCHANGED <<lists, nextListId, nextItemId, clock, last, ui, location>>

BeginDeleteListItem(r, listId, itemId) ==
    /\ IF GetListItemAsync(listId, itemId) = Null
       THEN Begin(r, Returned("DeleteListItem", listId, itemId, "NotFound"))
       ELSE Begin(r, Awaiting("delete", "DeleteListItem", listId, itemId,
                              Value(GetListItemAsync(listId, itemId)),
                              [name |-> "none"], <<>>))
    /\ UNCHANGED <<api, ui, location>>

EndDeleteListItem(r) ==
    /\ pending[r].pc = "delete" /\ pending[r].op = "DeleteListItem"
    /\ items' = DeleteListItemAsync(pending[r].listId, pending[r].itemId)
    /\ End(r, IF pending[r].itemId \in Ids(items) THEN "NoContent" ELSE "NotFoundException")
    /\ UNCHANGED <<lists, nextListId, nextItemId, clock, last, ui, location>>

(***************************************************************************)
(* SpecConcurrent: a store built by creates, then two requests, each an    *)
(* update or a delete of a list or an item, in every interleaving of their *)
(* steps.  The clock stands still and the bodies carry no dates.           *)
(***************************************************************************)
NextConcurrent ==
    \/ Respond
    \/ \E list \in CreateUpdateTodoList({"a"}) :
          AllIdle /\ nextListId \in ListIds /\ CreateList(list, NoId)
    \/ \E listId \in ListIds, item \in CreateUpdateTodoItem({"a"}, {"todo"}, {}) :
          AllIdle /\ nextItemId \in ItemIds /\ GetListAsync(listId) # Null
          /\ CreateListItem(listId, item, NoId)
    \/ \E r \in Requests, listId \in ListIds, list \in CreateUpdateTodoList({"b"}) :
          BeginUpdateList(r, listId, list)
    \/ \E r \in Requests : EndUpdateList(r)
    \/ \E r \in Requests, listId \in ListIds : BeginDeleteList(r, listId)
    \/ \E r \in Requests : EndDeleteList(r)
    \/ \E r \in Requests, listId \in ListIds, itemId \in ItemIds :
          \E item \in Bodies(GetListItemAsync(listId, itemId) # Null,
                             CreateUpdateTodoItem({"b"}, {"todo", "done"}, {})) :
             BeginUpdateListItem(r, listId, itemId, item)
    \/ \E r \in Requests : EndUpdateListItem(r)
    \/ \E r \in Requests, listId \in ListIds, itemId \in ItemIds :
          BeginDeleteListItem(r, listId, itemId)
    \/ \E r \in Requests : EndDeleteListItem(r)

SpecConcurrent == Init /\ [][NextConcurrent]_vars

(***************************************************************************)
(* The countdown cell of TodoItemListPane (renderItemColumn, case          *)
(* "countdown").  Instants are seconds.  A Date is the instant it holds;   *)
(* its local fields are those of the browser's zone systemTimeZone.  Time  *)
(* zones have a fixed offset from UTC.                                     *)
(***************************************************************************)
MaxWall == 2
MaxTick == 2

(* The thresholds of the colour gradient, in minutes. *)
CriticalMinutes == 60
HighMinutes == 360
MediumMinutes == 1440
LowMinutes == 4320

Zones == {"UTC", "Etc/GMT-1", "Etc/GMT+1"}

(* Seconds the local time of the zone is ahead of UTC. *)
UtcOffset(zone) ==
    CASE zone = "Etc/GMT-1" -> 3600
      [] zone = "Etc/GMT+1" -> -3600
      [] OTHER -> 0

(* interface LocationData; latitude, longitude and country are left out. *)
LocationData(zones, cities) == [timezone : zones, city : Opt(cities)]

(* The fields of TodoDisplayItem that the countdown cell reads. *)
TodoDisplayItem(states, dates) == [state : states, originalDueDate : Opt(dates)]

(* Due dates around the instants 0..MaxWall of the renders: past, equal to
   now, and on both sides of every threshold of the gradient. *)
DueDates ==
    {-3600, 0, 1, 2, 1800}
        \cup {(m + 1) * 60 : m \in {CriticalMinutes, HighMinutes, MediumMinutes, LowMinutes}}
        \cup {(LowMinutes + 60) * 60}

(* JavaScript's division and remainder of integers: towards zero. *)
Trunc(a, b) == IF a >= 0 THEN a \div b ELSE -((-a) \div b)
Rem(a, b) == a - b * Trunc(a, b)

(* date-fns-tz toZonedTime: the Date whose local fields show the time of day
   of the instant in timeZone. *)
toZonedTime(date, timeZone) == date + UtcOffset(timeZone) - UtcOffset(systemTimeZone)

(* date-fns isPast: before Date.now(), which it reads itself. *)
isPast(date, dateNow) == date < dateNow

differenceInSeconds(a, b) == a - b
differenceInMinutes(a, b) == Trunc(a - b, 60)
differenceInHours(a, b) == Trunc(a - b, 3600)
differenceInDays(a, b) == Trunc(a - b, 86400)

(* LocationService.getCurrentTimezone *)
getCurrentTimezone ==
    IF cachedLocation # Null
    THEN Value(cachedLocation).timezone
    ELSE systemTimeZone

(* The text of the cell: a fixed label, or `${days}d ${hours}h ${minutes}m
   ${seconds}s${locationInfo}`. *)
Text(label, days, hours, minutes, seconds, locationInfo) ==
    [label |-> label, days |-> days, hours |-> hours, minutes |-> minutes,
     seconds |-> seconds, locationInfo |-> locationInfo]

Label(label) == Text(label, 0, 0, 0, 0, "")

(* The <Text> element returned: its content, colour and font weight. *)
Cell(text, color, fontWeight) == [text |-> text, color |-> color, fontWeight |-> fontWeight]

(* fontWeight: totalMinutes <= 360 ? '600' : '400' *)
FontWeight(totalMinutes) == IF totalMinutes <= HighMinutes THEN "600" ELSE "400"

(* Colour gradient based on time remaining. *)
CountdownColor(totalMinutes) ==
    IF totalMinutes <= CriticalMinutes THEN "#d13438"
    ELSE IF totalMinutes <= HighMinutes THEN "#ff8c00"
    ELSE IF totalMinutes <= MediumMinutes THEN "#ffd700"
    ELSE IF totalMinutes <= LowMinutes THEN "#90ee90"
    ELSE "#107c10"

(* The else branch of isPast: the countdown to the due date. *)
Remaining(zonedDue, zonedNow) ==
    LET totalMinutes == differenceInMinutes(zonedDue, zonedNow)
        days == differenceInDays(zonedDue, zonedNow)
        hours == Rem(differenceInHours(zonedDue, zonedNow), 24)
        minutes == Rem(differenceInMinutes(zonedDue, zonedNow), 60)
        seconds == Rem(differenceInSeconds(zonedDue, zonedNow), 60)
        locationInfo == IF userLocation # Null /\ Value(userLocation).city # Null
                        THEN " (" \o Value(Value(userLocation).city) \o ")"
                        ELSE ""
    IN  Cell(Text("countdown", days, hours, minutes, seconds, locationInfo),
             CountdownColor(totalMinutes), FontWeight(totalMinutes))

(* renderItemColumn testing the due date before the state. *)
renderItemColumnDueFirst(item, tickValue, now, dateNow) ==
    LET userTimezone == IF userLocation # Null
                        THEN Value(userLocation).timezone ELSE getCurrentTimezone
    IN  IF item.originalDueDate # Null
           /\ isPast(toZonedTime(Value(item.originalDueDate), userTimezone), dateNow)
        THEN Cell(Label("Due!"), "#d13438", FontWeight(0))
        ELSE IF item.state = "done"
        THEN Cell(Label("Complete"), "#107c10", "bold")
        ELSE IF item.originalDueDate = Null
        THEN Cell(Label("N/A"), "#666", FontWeight(0))
        ELSE Remaining(toZonedTime(Value(item.originalDueDate), userTimezone),
                       toZonedTime(now, userTimezone))

(* renderItemColumn counting the time down with the tick counter: each tick
   takes one second off what remained when the pane was mounted. *)
renderItemColumnFromTick(item, tickValue, now, dateNow) ==
    LET userTimezone == IF userLocation # Null
                        THEN Value(userLocation).timezone ELSE getCurrentTimezone
    IN  IF item.state = "done"
        THEN Cell(Label("Complete"), "#107c10", "bold")
        ELSE IF item.originalDueDate = Null
        THEN Cell(Label("N/A"), "#666", FontWeight(0))
        ELSE IF isPast(toZonedTime(Value(item.originalDueDate), userTimezone), tickValue)
        THEN Cell(Label("Due!"), "#d13438", FontWeight(0))
        ELSE Remaining(toZonedTime(Value(item.originalDueDate), userTimezone),
                       toZonedTime(tickValue, userTimezone))

(* renderItemColumn, case "countdown": tickValue is the tick the render
   closes over (void tick), now the value of new Date(), dateNow the value of
   Date.now() read by isPast. *)
renderItemColumn(item, tickValue, now, dateNow) ==
    IF item.state = "done"
    THEN Cell(Label("Complete"), "#107c10", "bold")
    ELSE IF item.originalDueDate = Null
    THEN Cell(Label("N/A"), "#666", FontWeight(0))
    ELSE LET due == Value(item.originalDueDate)
             userTimezone == IF userLocation # Null
                             THEN Value(userLocation).timezone
                             ELSE getCurrentTimezone
             zonedNow == toZonedTime(now, userTimezone)
             zonedDue == toZonedTime(due, userTimezone)
         IN  IF isPast(zonedDue, dateNow)
             THEN Cell(Label("Due!"), "#d13438", FontWeight(0))
             ELSE Remaining(zonedDue, zonedNow)

(* The render reads the clock a second time, in isPast, when the item is not
   done and has a due date. *)
ReadsDateNow(item) == item.state # "done" /\ item.originalDueDate # Null

(* The row of the item is rendered with tick value tickValue: the cell, the
   two reads of the clock and the tick are kept in rendered. *)
RenderRow(tickValue, dateNow) ==
    /\ display # Null
    /\ wall <= dateNow /\ dateNow <= MaxWall
    /\ ReadsDateNow(Value(display)) \/ dateNow = wall
    /\ rendered' = Some([cell |-> renderItemColumn(Value(display), tickValue, wall, dateNow),
                         now |-> <<wall, dateNow>>,
                         tick |-> tickValue])
    /\ wall' = dateNow

(* The pane renders (it was mounted, or its props or state changed). *)
Render(dateNow) ==
    /\ RenderRow(tick, dateNow)
    /\ UNCHANGED <<api, requests, location, display, tick, userLocation, cachedLocation, systemTimeZone>>

(* The interval callback setTick(t => t + 1), and the render it causes. *)
SetTick(dateNow) ==
    /\ tick < MaxTick
    /\ tick' = tick + 1
    /\ RenderRow(tick + 1, dateNow)
    /\ UNCHANGED <<api, requests, location, display, userLocation, cachedLocation, systemTimeZone>>

(* Time passes in the browser. *)
WallTick ==
    /\ wall < MaxWall
    /\ wall' = wall + 1
    /\ UNCHANGED <<api, requests, location, display, tick, userLocation, cachedLocation,
                   systemTimeZone, rendered>>

(***************************************************************************)
(* SpecCountdown: the countdown cell of one item, for every state and due  *)
(* date of the item, browser zone and known location, rendered again and   *)
(* again while time passes and the tick counts.                            *)
(***************************************************************************)
InitCountdown ==
    /\ InitApi /\ InitRequests
    /\ display \in {Some(i) : i \in TodoDisplayItem(States, DueDates)}
    /\ wall = 0
    /\ tick = 0
    /\ userLocation \in Opt(LocationData(Zones, {"Paris"}))
    /\ cachedLocation \in Opt(LocationData(Zones, {}))
    /\ systemTimeZone \in Zones
    /\ rendered = Null
    /\ InitLocationService

NextCountdown ==
    \/ WallTick
    \/ \E dateNow \in wall..MaxWall : Render(dateNow)
    \/ \E dateNow \in wall..MaxWall : SetTick(dateNow)

SpecCountdown == InitCountdown /\ [][NextCountdown]_vars

(***************************************************************************)
(* LocationService.  getCurrentLocation runs in three blocks, separated by *)
(* its awaits of getPosition and getLocationDetails; each block, with the  *)
(* finally clause of the block that returns, runs without interruption on  *)
(* the browser's one thread.  A call is made by a caller that has no call  *)
(* outstanding.                                                            *)
(***************************************************************************)
(* The answers of the timezone API: none (the request failed or was not
   ok), or the fields ianaTimeZone (possibly empty) and localityName. *)
TimezoneResponses ==
    Opt([ianaTimeZone : {"", "Etc/GMT-1"}, localityName : Opt({"Paris"})])

(* getLocationDetails: never rejects; falls back to the browser's zone. *)
getLocationDetails(response) ==
    IF response # Null
    THEN [timezone |-> IF Value(response).ianaTimeZone # ""
                       THEN Value(response).ianaTimeZone
                       ELSE systemTimeZone,
          city |-> Value(response).localityName]
    ELSE [timezone |-> systemTimeZone, city |-> Null]

(* notifyCallbacks emptying the queue without calling the callbacks. *)
notifyCallbacksDropsAll(loc) == [calls |-> calls, callbacks |-> SubSeq(callbacks, 1, 0)]

(* notifyCallbacks: every queued resolve is called with the location, and
   the queue is emptied. *)
notifyCallbacks(loc) ==
    [calls |-> [c \in Callers |->
                   IF \E k \in 1..Len(callbacks) : callbacks[k] = c
                   THEN Call("resolved", "wait", loc)
                   ELSE calls[c]],
     callbacks |-> <<>>]

(* The path of getCurrentLocation without the test of isLoading. *)
getCurrentLocationPathNoLoadingTest ==
    IF cachedLocation # Null THEN "cached"
    ELSE IF ~geolocation THEN "unsupported"
    ELSE "lookup"

(* The path a call of getCurrentLocation takes through its first block. *)
getCurrentLocationPath ==
    IF cachedLocation # Null THEN "cached"
    ELSE IF isLoading THEN "wait"
    ELSE IF ~geolocation THEN "unsupported"
    ELSE "lookup"

(* The block ends the lookup of caller c with loc: notifyCallbacks(loc),
   return loc, and isLoading = false in the finally clause. *)
Return(c, loc) ==
    LET notified == notifyCallbacks(loc)
    IN  /\ calls' = [notified.calls EXCEPT ![c] = Call("resolved", "lookup", loc)]
        /\ callbacks' = notified.callbacks
        /\ isLoading' = FALSE

(* Caller c calls getCurrentLocation: the block up to the first await. *)
GetCurrentLocation(c) ==
    /\ calls[c].pc = "idle"
    /\ CASE getCurrentLocationPath = "cached" ->
               /\ calls' = [calls EXCEPT ![c] = Call("resolved", "cache", cachedLocation)]
               /\ UNCHANGED <<isLoading, callbacks>>
         [] getCurrentLocationPath = "wait" ->
               /\ callbacks' = Append(callbacks, c)
               /\ calls' = [calls EXCEPT ![c] = Call("waiting", "wait", Null)]
               /\ UNCHANGED isLoading
         [] getCurrentLocationPath = "unsupported" ->
               Return(c, Null)
         [] OTHER ->
               /\ isLoading' = TRUE
               /\ calls' = [calls EXCEPT ![c] = Call("position", "lookup", Null)]
               /\ UNCHANGED callbacks
    /\ UNCHANGED <<api, requests, ui, geolocation>>

(* getPosition resolves: the call goes on to await getLocationDetails. *)
PositionResolves(c) ==
    /\ calls[c].pc = "position"
    /\ calls' = [calls EXCEPT ![c].pc = "details"]
    /\ UNCHANGED <<api, requests, ui, isLoading, callbacks, geolocation>>

(* The catch block caching the browser's zone as a fallback location. *)
PositionRejectsCachesFallback(c) ==
    /\ calls[c].pc = "position"
    /\ cachedLocation' = Some(getLocationDetails(Null))
    /\ Return(c, Null)
    /\ UNCHANGED <<api, requests, display, wall, tick, userLocation, systemTimeZone,
                   rendered, geolocation>>

(* getPosition rejects (position error or timeout): the catch block. *)
PositionRejects(c) ==
    /\ calls[c].pc = "position"
    /\ Return(c, Null)
    /\ UNCHANGED <<api, requests, ui, geolocation>>

(* getLocationDetails resolves: the location is cached and returned. *)
DetailsResolve(c, response) ==
    /\ calls[c].pc = "details"
    /\ LET locationData == getLocationDetails(response)
       IN  /\ cachedLocation' = Some(locationData)
           /\ Return(c, Some(locationData))
    /\ UNCHANGED <<api, requests, display, wall, tick, userLocation, systemTimeZone,
                   rendered, geolocation>>

(* clearCache *)
ClearCache ==
    /\ cachedLocation' = Null
    /\ UNCHANGED <<api, requests, location, display, wall, tick, userLocation,
                   systemTimeZone, rendered>>

(* The caller's await of getCurrentLocation continues: TodoItemListPane
   keeps the location (setUserLocation). *)
SetUserLocation(c) ==
    /\ calls[c].pc = "resolved"
    /\ userLocation' = calls[c].result
    /\ calls' = [calls EXCEPT ![c] = NoCall]
    /\ UNCHANGED <<api, requests, display, wall, tick, cachedLocation, systemTimeZone,
                   rendered, isLoading, callbacks, geolocation>>

(***************************************************************************)
(* SpecLocation: the callers call getCurrentLocation again and again, in   *)
(* a browser with or without geolocation, while lookups succeed or fail    *)
(* and the cache is cleared.  SpecLocationFair: every lookup that has been *)
(* started settles.                                                        *)
(***************************************************************************)
InitLocation ==
    /\ InitApi /\ InitRequests /\ InitUi
    /\ isLoading = FALSE
    /\ callbacks = <<>>
    /\ calls = [c \in Callers |-> NoCall]
    /\ geolocation \in BOOLEAN

LookupSettles ==
    \E c \in Callers :
        \/ PositionResolves(c)
        \/ PositionRejects(c)
        \/ \E response \in TimezoneResponses : DetailsResolve(c, response)

NextLocation ==
    \/ \E c \in Callers : GetCurrentLocation(c)
    \/ \E c \in Callers : PositionResolves(c)
    \/ \E c \in Callers : PositionRejects(c)
    \/ \E c \in Callers, response \in TimezoneResponses : DetailsResolve(c, response)
    \/ ClearCache
    \/ \E c \in Callers : SetUserLocation(c)

SpecLocation == InitLocation /\ [][NextLocation]_vars

SpecLocationFair == InitLocation /\ [][NextLocation]_vars /\ WF_vars(LookupSettles)

(***************************************************************************)
(* Properties of the item lifecycle (SpecLifecycle).                       *)
(***************************************************************************)
(* UpdateListItem has just answered Ok: Req is the body it bound, Old the
   state and due date the item had, Result the item it returned, ReadAt its
   second read of the clock (the "now" of the reopen test and of the
   completion rule). *)
Updated == last.op = "UpdateListItem" /\ last.status = "Ok"
Req == Value(last.req)
Old == Value(last.old)
Result == last.body[1]
ReadAt == last.now[2]
Stored == ReadItem(items, last.itemId)

(* C1: every stored item has a completedDate if and only if its state is
   done. *)
C1_CompletedIffDone ==
    \A i \in Range(items) : HasValue(i.completedDate) <=> i.state = "done"

(* The request asks a done item to stay done with a due date that differs
   from the stored one, is strictly after now and at least one hour later. *)
ReopenCase ==
    /\ Updated
    /\ Old.state = "done" /\ Req.state = "done"
    /\ HasValue(Old.dueDate) /\ HasValue(Req.dueDate)
    /\ Value(Req.dueDate) # Value(Old.dueDate)
    /\ Value(Req.dueDate) > ReadAt
    /\ Value(Req.dueDate) - Value(Old.dueDate) >= OneHour

(* C2: reopen rule: in the reopen case the stored result has state todo and
   no completedDate, whatever completedDate the request carries. *)
C2_ReopenRule ==
    ReopenCase =>
        /\ Result.state = "todo" /\ Result.completedDate = Null
        /\ Stored = {Result}

(* C3: reopen rule, negative side: a request that asks a done item to stay
   done, outside the reopen case (the due date moves by less than one hour,
   or is not strictly after now, or a due date is missing), leaves the item
   done. *)
C3_NoReopen ==
    (Updated /\ Old.state = "done" /\ Req.state = "done" /\ ~ReopenCase) =>
        /\ Result.state = "done"
        /\ Stored = {Result}

(* A done item whose due date moved half an hour into the future stayed done. *)
C3_Witness ==
    /\ Updated
    /\ Old.state = "done" /\ Req.state = "done"
    /\ HasValue(Old.dueDate) /\ HasValue(Req.dueDate)
    /\ Value(Req.dueDate) > Value(Old.dueDate)
    /\ Value(Req.dueDate) - Value(Old.dueDate) < OneHour
    /\ Value(Req.dueDate) > ReadAt
    /\ Result.state = "done"
    /\ Stored = {Result}

(* C4: completion rule: asking for done on an item that is not done gives
   state done, the request's completedDate when it has one and now otherwise,
   and the request's due date. *)
C4_CompletionRule ==
    (Updated /\ Req.state = "done" /\ Old.state # "done") =>
        /\ Result.state = "done"
        /\ Result.completedDate =
              IF HasValue(Req.completedDate) THEN Req.completedDate ELSE Some(ReadAt)
        /\ Result.dueDate = Req.dueDate
        /\ Stored = {Result}

(* An item in progress was completed by a request that came with a due date
   and no completedDate. *)
C4_Witness ==
    /\ Updated
    /\ Old.state = "inprogress" /\ Req.state = "done"
    /\ Req.completedDate = Null
    /\ HasValue(Req.dueDate)
    /\ Result.state = "done"
    /\ Result.completedDate = Some(ReadAt)
    /\ Result.dueDate = Req.dueDate
    /\ Stored = {Result}

(* C5: leaving-done rule: a request for a state other than done gives that
   state and no completedDate, whatever the stored state and the request's
   completedDate. *)
C5_LeavingDone ==
    (Updated /\ Req.state # "done") =>
        /\ Result.state = Req.state
        /\ Result.completedDate = Null
        /\ Stored = {Result}

(* A done item was moved to in progress by a request that carried a
   completedDate. *)
C5_Witness ==
    /\ Updated
    /\ Old.state = "done" /\ Req.state = "inprogress"
    /\ HasValue(Req.completedDate)
    /\ Result.state = "inprogress"
    /\ Result.completedDate = Null
    /\ Stored = {Result}

(* C6: the endpoint UpdateListItem and the repository method
   UpdateListItemWithStateLogic give every stored item, for every request
   and time, the same state, due date and completedDate. *)
C6_SameRule ==
    \A i \in Range(items), item \in CreateUpdateTodoItem({"a"}, States, Times), now \in Times :
        LET a == ApplyUpdateListItem(i, item, now, now, now)
            b == UpdateListItemWithStateLogic(i, item.state, item.dueDate,
                                              item.completedDate, now)
        IN  /\ a.state = b.state
            /\ a.dueDate = b.dueDate
            /\ a.completedDate = b.completedDate

(* C16: steady-state-done rule: a request for done on an item that is done,
   outside the reopen case, gives state done and the request's completedDate,
   which replaces the stored one also when the request carries none. *)
C16_SteadyStateDone ==
    (Updated /\ Old.state = "done" /\ Req.state = "done" /\ ~ReopenCase) =>
        /\ Result.state = "done"
        /\ Result.completedDate = Req.completedDate
        /\ Stored = {Result}

(* A done item with a completedDate stayed done under a request without one
   and has lost its completedDate. *)
C16_Witness ==
    /\ Updated
    /\ Old.state = "done" /\ HasValue(Old.completedDate)
    /\ Req.state = "done" /\ Req.completedDate = Null
    /\ Result.state = "done" /\ Result.completedDate = Null
    /\ Stored = {Result}

(***************************************************************************)
(* Properties of the store gateway (SpecStore).                            *)
(***************************************************************************)
ItemOps == {"GetListItem", "UpdateListItem", "DeleteListItem"}

(* The item itemId is stored under a list other than listId. *)
InOtherList(listId, itemId) ==
    \E i \in Range(items) : i.id = itemId /\ i.listId # listId

(* C7: cross-list isolation: a get, update or delete addressed by
   (listId, itemId), where the item exists under another list, is answered
   NotFound, returns no item and changes no item. *)
C7_CrossListIsolation ==
    [][(Idle /\ last'.op \in ItemOps /\ InOtherList(last'.listId, last'.itemId)) =>
           (last'.status = "NotFound" /\ last'.body = <<>> /\ items' = items)]_vars

(* An update addressed an item through an existing list that is not the
   item's, and was answered NotFound. *)
C7_Witness ==
    /\ last.op = "UpdateListItem"
    /\ last.status = "NotFound"
    /\ GetListAsync(last.listId) # Null
    /\ InOtherList(last.listId, last.itemId)

DistinctIds(container) ==
    \A j, k \in 1..Len(container) : container[j].id = container[k].id => j = k

(* The step stored doc in container as one more document, under an id no
   document of the container had, and left the documents it had as they were. *)
Added(container, containerAfter, doc) ==
    /\ doc.id \notin Ids(container)
    /\ Len(containerAfter) = Len(container) + 1
    /\ Range(containerAfter) = Range(container) \cup {doc}

(* C8: identity assignment: every create stores the new entity under a fresh
   id, whatever id the client supplied, and leaves every stored entity as it
   was; all ids of a collection are distinct. *)
C8_FreshIds ==
    [][/\ DistinctIds(lists') /\ DistinctIds(items')
       /\ (last'.op = "CreateList" /\ Idle) =>
              Added(lists, lists', last'.body[1]) /\ items' = items
       /\ (last'.op = "CreateListItem" /\ last'.status = "Created" /\ Idle) =>
              Added(items, items', last'.body[1]) /\ lists' = lists]_vars

(* An item was created by a request that carried the id of a stored item,
   which is still stored next to the new one. *)
C8_Witness ==
    /\ last.op = "CreateListItem" /\ last.status = "Created"
    /\ Value(last.req).id \in Ids(items) \ {last.itemId}
    /\ last.itemId \in Ids(items)
    /\ Len(items) >= 2

(***************************************************************************)
(* Properties of the paginated queries (SpecQuery).                        *)
(***************************************************************************)
(* The documents of container at the places in keep, in the container's
   order. *)
Kept(container, keep) ==
    [k \in 1..Cardinality(keep) |->
        container[CHOOSE j \in keep : Cardinality({m \in keep : m <= j}) = k]]

(* The places of the matching documents left after the first skip of them
   are dropped and at most limit are kept. *)
PageOf(matching, skip, limit) ==
    {j \in matching :
        LET rank == Cardinality({m \in matching : m <= j})
        IN  /\ skip # Null => rank > Value(skip)
            /\ limit # Null => rank <= (IF skip # Null THEN Value(skip) ELSE 0) + Value(limit)}

ItemsOf(listId) == {j \in 1..Len(items) : items[j].listId = listId}

ItemsInState(listId, state) == {j \in ItemsOf(listId) : items[j].state = state}

Queried(op) == last.op = op /\ last.status = "Ok"

(* C9: scoped pagination: listItems and listItemsByState return the stored
   items of the list (in the state asked for), without the first skip of
   them and cut to at most limit; an absent skip drops nothing, an absent
   limit keeps everything; listLists slices the lists the same way. *)
C9_ScopedPagination ==
    /\ Queried("GetListItems") =>
           last.body = Kept(items, PageOf(ItemsOf(last.listId),
                                          Req.skip, Req.batchSize))
    /\ Queried("GetListItemsByState") =>
           last.body = Kept(items, PageOf(ItemsInState(last.listId, Req.state),
                                          Req.skip, Req.batchSize))
    /\ Queried("GetLists") =>
           last.body = Kept(lists, PageOf(1..Len(lists), Req.skip, Req.batchSize))

(* listItems with skip 1 and limit 1 returned the second item of a list,
   which is the third of the store: an item of another list comes first. *)
C9_Witness ==
    /\ Queried("GetListItems")
    /\ Req.skip = Some(1) /\ Req.batchSize = Some(1)
    /\ Len(items) = 3
    /\ ItemsOf(last.listId) = {2, 3}
    /\ last.body = <<items[3]>>

(***************************************************************************)
(* Requests that name a list.                                              *)
(***************************************************************************)
ListOps ==
    {"GetList", "UpdateList", "DeleteList", "GetListItems", "GetListItemsByState",
     "CreateListItem", "GetListItem", "UpdateListItem", "DeleteListItem"}

(* C10: a request that names a listId for which no list exists when it is
   made is answered NotFound and changes neither collection. *)
C10_MissingListNotFound ==
    [][(Idle /\ last'.op \in ListOps /\ GetListAsync(last'.listId) = Null) =>
           (last'.status = "NotFound" /\ lists' = lists /\ items' = items)]_vars

(* C13: an item's listId never changes: across every step, each item that
   is stored before and after has the listId it had, and a created item is
   stored under the list the request named. *)
C13_ListIdImmutable ==
    [][/\ \A i \in Range(items), j \in Range(items') : i.id = j.id => j.listId = i.listId
       /\ (Idle /\ last'.op = "CreateListItem" /\ last'.status = "Created") =>
              /\ last'.body[1].listId = last'.listId
              /\ ReadItem(items', last'.itemId) = {last'.body[1]}]_vars

(* With two lists stored, an item was updated and is stored, renamed, under
   the list it had. *)
C13_Witness ==
    /\ Updated /\ Len(lists) = 2
    /\ Result.name = "b"
    /\ Result.listId = last.listId
    /\ Stored = {Result}

(* C14: deleteList removes the one list with the id and nothing else: every
   item, the items of the deleted list included, and every other list stay
   as they were. *)
C14_DeleteListNoCascade ==
    [][(Idle /\ last'.op = "DeleteList" /\ last'.status = "NoContent") =>
           /\ items' = items
           /\ lists' = SelectSeq(lists, LAMBDA l : l.id # last'.listId)
           /\ Len(lists') = Len(lists) - 1]_vars

(* A list was deleted; an item of it and another list are still stored. *)
C14_Witness ==
    /\ last.op = "DeleteList" /\ last.status = "NoContent"
    /\ last.listId \notin Ids(lists)
    /\ \E i \in Range(items) : i.listId = last.listId
    /\ Len(lists) = 1

(***************************************************************************)
(* Properties of updatedDate (SpecDates).                                  *)
(***************************************************************************)
(* updatedDate a is not after updatedDate b; an entity that was never
   updated has none. *)
NotAfter(a, b) == a = Null \/ (b # Null /\ Value(a) <= Value(b))

(* Each entity of the container that is still stored after the step has an
   updatedDate that is not before the one it had. *)
NeverDecreases(container, containerAfter) ==
    \A d \in Range(container), e \in Range(containerAfter) :
        d.id = e.id => NotAfter(d.updatedDate, e.updatedDate)

(* C15: updatedDate is refreshed on every mutation: a successful updateList
   or UpdateListItem stores the entity with updatedDate equal to the time the
   handler read when it was called, UpdateListItemWithStateLogic sets it to
   its now, and with the clock never running backwards no stored entity's
   updatedDate ever decreases. *)
C15_UpdatedDateRefreshed ==
    [][/\ (Idle /\ last'.op = "UpdateList" /\ last'.status = "Ok") =>
              /\ last'.body[1].updatedDate = Some(clock)
              /\ ReadItem(lists', last'.listId) = {last'.body[1]}
       /\ (Idle /\ last'.op = "UpdateListItem" /\ last'.status = "Ok") =>
              /\ last'.body[1].updatedDate = Some(clock)
              /\ ReadItem(items', last'.itemId) = {last'.body[1]}
       /\ \A i \in Range(items), state \in States, now \in Times :
             UpdateListItemWithStateLogic(i, state, Null, Null, now).updatedDate = Some(now)
       /\ clock <= clock'
       /\ NeverDecreases(lists, lists') /\ NeverDecreases(items, items')]_vars

(* A list was updated, and at a later time the item was updated and carries
   that later time. *)
C15_Witness ==
    /\ Updated
    /\ Result.updatedDate = Some(last.now[1])
    /\ last.now[1] > 0
    /\ Stored = {Result}
    /\ \E l \in Range(lists) : l.updatedDate # Null /\ Value(l.updatedDate) < last.now[1]

(***************************************************************************)
(* Properties of requests in progress together (SpecConcurrent).           *)
(***************************************************************************)
UpdateOps == {"UpdateList", "UpdateListItem"}

(* The container request r writes to, and the id it writes under. *)
ContainerOf(r) == IF pending[r].op \in {"UpdateList", "DeleteList"} THEN lists ELSE items
TargetOf(r) == IF pending[r].op \in {"UpdateList", "DeleteList"}
               THEN pending[r].listId ELSE pending[r].itemId

(* The step is the replace write of update request r. *)
Replaces(r) ==
    /\ pending[r].pc = "replace" /\ pending[r].op \in UpdateOps
    /\ pending'[r].pc = "done"

(* The document request r addresses exists (for an item: under the list the
   request names). *)
Exists(r) ==
    IF pending[r].op = "UpdateList"
    THEN GetListAsync(pending[r].listId) # Null
    ELSE GetListItemAsync(pending[r].listId, pending[r].itemId) # Null

(* C11: updateList and updateItem never create a document: an id that has
   been given out and is absent from its container (the entity was deleted)
   is absent after every step, also when the delete ran between an update's
   existence read and its replace write; an update whose existence read finds
   nothing answers NotFound, and a replace that finds no document under the id
   fails with NotFound and leaves both containers as they were. *)
C11_UpdateNeverCreates ==
    [][/\ \A id \in ListIds : (id < nextListId /\ id \notin Ids(lists)) => id \notin Ids(lists')
       /\ \A id \in ItemIds : (id < nextItemId /\ id \notin Ids(items)) => id \notin Ids(items')
       /\ \A r \in Requests :
             /\ (pending[r].pc = "idle" /\ pending'[r].op \in UpdateOps /\ ~Exists(r)')
                   => (pending'[r].status = "NotFound" /\ pending'[r].pc = "done"
                       /\ lists' = lists /\ items' = items)
             /\ (Replaces(r) /\ TargetOf(r) \notin Ids(ContainerOf(r)))
                   => (pending'[r].status = "NotFoundException"
                       /\ lists' = lists /\ items' = items)]_vars

(* An update of an item read it, a delete of the same item then ran to its
   end, and the update's replace failed: the item is absent. *)
C11_Witness ==
    /\ pending[1].op = "UpdateListItem" /\ pending[2].op = "DeleteListItem"
    /\ pending[1].itemId = pending[2].itemId
    /\ pending[2].status = "NoContent"
    /\ pending[1].began < pending[2].ended /\ pending[2].ended < pending[1].ended
    /\ pending[1].status = "NotFoundException"
    /\ pending[1].itemId \notin Ids(items)

(* The item store after request r (an UpdateListItem) has run alone, from
   its read to its write, on the item store given. *)
RunEdit(store, r) ==
    LET existingItem == {d \in Range(store) :
                            d.id = pending[r].itemId /\ d.listId = pending[r].listId}
    IN  IF existingItem = Null
        THEN store
        ELSE ReplaceItem(store, ApplyUpdateListItem(Value(existingItem), Value(pending[r].req),
                                                    clock, clock, clock))

(* Both requests were UpdateListItem requests, for two different items, and
   both have ended. *)
TwoEditsDone ==
    /\ \A r \in Requests : pending[r].op = "UpdateListItem" /\ pending[r].pc = "done"
    /\ pending[1].itemId # pending[2].itemId

SequentialOutcome ==
    TwoEditsDone =>
        /\ items = RunEdit(RunEdit(Value(before).items, 1), 2)
        /\ items = RunEdit(RunEdit(Value(before).items, 2), 1)
        /\ lists = Value(before).lists

(* C12: two UpdateListItem requests for two different items, their reads and
   writes interleaved in any way, leave the store that running them one
   after the other leaves, in either order; the write of each changes no
   list and no item other than the one it addresses. *)
C12_IndependentEdits ==
    [][/\ SequentialOutcome'
       /\ \A r \in Requests :
             (Replaces(r) /\ pending[r].op = "UpdateListItem") =>
                 /\ lists' = lists
                 /\ Len(items') = Len(items)
                 /\ \A k \in 1..Len(items) :
                       items[k].id # pending[r].itemId => items'[k] = items[k]]_vars

(* Two edits of two different items: both read before either wrote, both
   were answered Ok, and both items changed. *)
C12_Witness ==
    /\ TwoEditsDone
    /\ pending[1].status = "Ok" /\ pending[2].status = "Ok"
    /\ pending[1].began < pending[2].began
    /\ pending[2].began < pending[1].ended
    /\ pending[1].ended < pending[2].ended
    /\ Value(pending[1].req) # Value(pending[2].req)
    /\ \A k \in 1..Len(items) : items[k] # Value(before).items[k]

(***************************************************************************)
(* Properties of the countdown cell (SpecCountdown).                       *)
(***************************************************************************)
(* The item of the row, the cell rendered last, the two reads of the clock
   of that render, and whether the item has a due date. *)
Row == Value(display)
Out == Value(rendered).cell
RenderedAt == Value(rendered).now[1]
DateNowAt == Value(rendered).now[2]
Due == Value(Row.originalDueDate)
UserTimezone == IF userLocation # Null THEN Value(userLocation).timezone ELSE getCurrentTimezone

(* The styling that carries the tier: colour and font weight. *)
Style(cell) == <<cell.color, cell.fontWeight>>
CompleteCell == Cell(Label("Complete"), "#107c10", "bold")
OverdueCell == Cell(Label("Due!"), "#d13438", "600")

(* C17: the countdown cell of a done item is the text Complete in the
   styling of the complete tier, whatever its due date, the time and the
   time zone. *)
C17_DoneIsComplete ==
    (rendered # Null /\ Row.state = "done") => Out = CompleteCell

(* A done item whose due date is past was rendered Complete in a time zone
   that is not the browser's. *)
C17_Witness ==
    /\ rendered # Null
    /\ Row.state = "done"
    /\ Row.originalDueDate # Null /\ Due < RenderedAt
    /\ UserTimezone # systemTimeZone
    /\ Out = CompleteCell

(* C18: the cell of an item that is not done and has a due date is the text
   Due! in the overdue styling exactly when the due date is at or before now,
   equal to now included, in every time zone. *)
C18_OverdueBoundary ==
    (rendered # Null /\ Row.state # "done" /\ Row.originalDueDate # Null) =>
        (Out = OverdueCell <=> Due <= RenderedAt)

(* The colour of the tier of m remaining whole minutes. *)
TierColor(m) ==
    IF m <= 60 THEN "#d13438"
    ELSE IF m <= 360 THEN "#ff8c00"
    ELSE IF m <= 1440 THEN "#ffd700"
    ELSE IF m <= 4320 THEN "#90ee90"
    ELSE "#107c10"

(* C19: the cell of an item that is not done and is due strictly after now
   has the colour of the tier of its remaining whole minutes, and its styling
   differs from the styling of the overdue tier and of the complete tier. *)
C19_UrgencyTiers ==
    (rendered # Null /\ Row.state # "done" /\ Row.originalDueDate # Null
     /\ Due > RenderedAt) =>
        /\ Out.color = TierColor((Due - RenderedAt) \div 60)
        /\ Style(Out) \notin {Style(OverdueCell), Style(CompleteCell)}

(* C20: the cell is the same for every value of the tick counter: it is
   determined by the item, the clock and the location. *)
C20_TickIndependent ==
    rendered # Null =>
        \A t \in 0..MaxTick : renderItemColumn(Row, t, RenderedAt, DateNowAt) = Out

(* After all its ticks the pane rendered, at the instant it was mounted, an
   item due in thirty minutes: the cell counts thirty minutes. *)
C20_Witness ==
    /\ rendered # Null
    /\ Value(rendered).tick = MaxTick
    /\ RenderedAt = 0
    /\ Out.text.label = "countdown"
    /\ Out.text.minutes = 30 /\ Out.text.seconds = 0


(***************************************************************************)
(* Properties of LocationService (SpecLocation, SpecLocationFair).         *)
(***************************************************************************)
(* The callers whose lookup is in flight, and those queued behind it. *)
InFlight == {c \in Callers : calls[c].pc \in {"position", "details"}}

Waiting == {c \in Callers : calls[c].pc = "waiting"}

(* The callers whose lookup ends in this step. *)
Ending == {c \in InFlight : calls'[c].pc = "resolved"}

(* C21: at most one geolocation lookup is in flight at any time; a caller
   that arrives while a lookup is in flight waits for it, and the waiting
   callers are resolved in the step that resolves the caller that started
   the lookup, and only then, with the value that caller receives. *)
C21_LookupSharing ==
    [][ /\ Cardinality(InFlight') <= 1
        /\ \A w \in Callers :
              (InFlight # {} /\ calls[w].pc = "idle" /\ calls'[w].pc # "idle")
                  => calls'[w].pc = "waiting"
        /\ \A c \in Ending : \A w \in Waiting :
              calls'[w] = Call("resolved", "wait", calls'[c].result)
        /\ \A w \in Waiting : calls'[w] # calls[w] => Ending # {} ]_vars

C21_Witness ==
    \E c \in Callers, w \in Callers :
        /\ calls[c].pc = "resolved" /\ calls[c].via = "lookup"
        /\ calls[w].pc = "resolved" /\ calls[w].via = "wait"
        /\ calls[c].result # Null
        /\ calls[w].result = calls[c].result


(* C22: whenever isLoading is false the callback queue is empty, and, when
   every started lookup settles, every call of getCurrentLocation is
   eventually resolved, whichever way the lookup ends and however
   clearCache is interleaved. *)
C22_NoStrandedWaiter ==
    /\ [](~isLoading => callbacks = <<>>)
    /\ \A c \in Callers : (calls[c].pc # "idle") ~> (calls[c].pc = "resolved")

C22_Witness ==
    \E c \in Callers, w \in Callers :
        /\ calls[c] = Call("resolved", "lookup", Null)
        /\ calls[w] = Call("resolved", "wait", Null)
        /\ geolocation
        /\ ~isLoading /\ callbacks = <<>>


(* The callers whose lookup fails in this step: geolocation unsupported,
   or a position error. *)
Failing ==
    {c \in Callers : calls[c].pc \in {"idle", "position"}
                     /\ calls'[c] = Call("resolved", "lookup", Null)}

(* The callers whose lookup succeeds in this step with the location loc. *)
Succeeding(loc) ==
    {c \in InFlight : calls'[c] = Call("resolved", "lookup", loc)}

(* C23: only a lookup that succeeds sets cachedLocation, to the location
   it returns, and otherwise cachedLocation only changes to null; a lookup
   that fails resolves its callers with null, leaves cachedLocation
   unchanged and resets isLoading, so that the next call of
   getCurrentLocation starts a new lookup; getCurrentTimezone is the cached
   timezone when a location is cached and the system timezone otherwise. *)
C23_CachesOnlySuccess ==
    /\ [](getCurrentTimezone = IF cachedLocation = Null
                               THEN systemTimeZone
                               ELSE Value(cachedLocation).timezone)
    /\ [][ /\ cachedLocation' # cachedLocation
              => \/ cachedLocation' = Null
                 \/ Succeeding(cachedLocation') # {}
           /\ Failing # {}
              => /\ \A w \in Waiting : calls'[w] = Call("resolved", "wait", Null)
                 /\ cachedLocation' = cachedLocation
                 /\ ~isLoading'
                 /\ getCurrentLocationPath' \notin {"cached", "wait"} ]_vars

C23_Witness ==
    \E c \in Callers, n \in Callers :
        /\ calls[c] = Call("resolved", "lookup", Null)
        /\ calls[n] = Call("position", "lookup", Null)
        /\ cachedLocation = Null
        /\ getCurrentTimezone = systemTimeZone

====
